---- MODULE Spec2Model ----
(***************************************************************************)
(* A model of src/src/seo_analysis.py: GoogleTrendsSEOAsync.async_retry,   *)
(* the three query facades built on it, the two plot functions and main(). *)
(*                                                                         *)
(* Coroutines run on one asyncio event loop.  `running` is the task that   *)
(* holds the loop; a task gives the loop up only at `await asyncio.sleep`  *)
(* (line 33), the single suspension point of the file.                     *)
(***************************************************************************)
EXTENDS Integers, Sequences, FiniteSets, TLC

VARIABLES
    running,      \* the task holding the event loop, or NoTask
    pc,           \* per task: position inside async_retry
    func,         \* per task: the operation handed to async_retry (and its inputs)
    retries,      \* per task: async_retry's `retries`
    delay,        \* per task: async_retry's `delay`
    attempt,      \* per task: the loop variable of line 26 (-1: not yet bound)
    result,       \* per task: the value async_retry returned
    error,        \* per task: the exception async_retry raised
    calls,        \* per task: calls of func made by this invocation
    opErrors,     \* per task: the exceptions func raised in this invocation, in order
    sleeps,       \* per task: the sleep_time values slept in this invocation, in order
    printed,      \* per task: the lines async_retry printed in this invocation
    builds,       \* per task: build_payload calls of this invocation
    retrievals,   \* per task: result retrievals of this invocation
    client,       \* self.pytrends: the payload the shared client holds
    deterministic,\* TRUE: the provider is a deterministic fake that never fails
    probe,        \* facade harness: the facade inputs whose results are compared
    probeResult,  \* facade harness: the first result returned for `probe`
    probeBetween, \* facade harness: a call with another payload has ended since
    mainPc,       \* position inside main()
    mainData,     \* main's local table (interest_over_time / region_interest)
    mainLog,      \* the lines main() printed
    plots         \* the plot calls main() made, in order

vars == <<running, pc, func, retries, delay, attempt, result, error, calls,
          opErrors, sleeps, printed, builds, retrievals, client, deterministic,
          probe, probeResult, probeBetween, mainPc, mainData, mainLog, plots>>

retryVars == <<pc, func, retries, delay, attempt, result, error, calls,
               opErrors, sleeps, printed, builds, retrievals>>
harnessVars == <<probe, probeResult, probeBetween>>
mainVars == <<mainPc, mainData, mainLog, plots>>

-----------------------------------------------------------------------------
(* Bounds of the model *)

\* async_retry is tried with retries in -1..MaxR
MaxR == 3
\* significand bits of the model's floating-point numbers (a double has 53)
MantBits == 3

(* Constants of the program *)

\* async_retry(self, func, retries=3, ...)
DefaultRetries == 3
\* async_retry(self, func, retries=3, delay=5, ...)
DefaultDelay == 5
\* random.uniform(0, 2)
JitterMax == 2

-----------------------------------------------------------------------------
(* Floating point.  Durations are counted in ticks of 2^-(MantBits-1) s,    *)
(* the grid of random.uniform(0, 2) = 0 + (2 - 0) * random(), where         *)
(* random() is a multiple of 2^-MantBits in [0, 1).                         *)

RECURSIVE Pow2(_)
Pow2(n) == IF n <= 0 THEN 1 ELSE 2 * Pow2(n - 1)

\* ticks per second
Tick == Pow2(MantBits - 1)

RECURSIVE BitLen(_)
BitLen(s) == IF s <= 0 THEN 0 ELSE 1 + BitLen(s \div 2)

\* s (in ticks) rounded to MantBits significant bits, ties to even
FloatRound(s) ==
    IF BitLen(s) <= MantBits THEN s
    ELSE LET q    == Pow2(BitLen(s) - MantBits)
             lo   == (s \div q) * q
             rest == s - lo
         IN  IF 2 * rest < q THEN lo
             ELSE IF 2 * rest > q THEN lo + q
             ELSE IF (s \div q) % 2 = 0 THEN lo ELSE lo + q

\* a jitter of random.uniform(0, 3)
JitterWide == 0 .. (3 * Tick - 1)

\* the values of random.uniform(0, 2), in ticks: 2 * random() < 2
Jitter == 0 .. (JitterMax * Tick - 1)

\* a backoff of twice the delay: sleep_time = 2 * delay + random.uniform(0, 2)
SleepTimeDoubled(d, j) == FloatRound(2 * d * Tick + j)

\* line 31: sleep_time = delay + random.uniform(0, 2), a float addition
SleepTime(d, j) == FloatRound(d * Tick + j)

-----------------------------------------------------------------------------
(* Values *)

NoTask == "none"
None == [kind |-> "None"]
\* what the k-th call of a scripted operation returns / raises
Value(k) == [kind |-> "value", call |-> k]
Err(src, k) == [kind |-> "error", src |-> src, call |-> k]

\* the lines async_retry prints (lines 32 and 35)
RetryingLine(s, a) == [line |-> "Retrying", sleep_time |-> s, attempt |-> a]
MaxRetriesLine(e) == [line |-> "Max retries reached", last_error |-> e]

Tasks == DOMAIN pc

\* async_retry has returned or raised
Done(t) == pc[t] \in {"returned", "raised"}

-----------------------------------------------------------------------------
(* async_retry, lines 13-36 *)

\* a loop whose body runs at least once, whatever `retries` is
RangeHasNextAtLeastOnce(a, R) == a + 1 < R \/ a = -1

\* line 26: range(retries) yields a value after loop value a
RangeHasNext(a, R) == a + 1 < R

\* the test of line 30 off by one, giving up one attempt early
MayRetryEarly(t) == attempt[t] < retries[t] - 2

\* the test of line 30 off by one the other way, sleeping after the last attempt
MayRetryAlways(t) == attempt[t] < retries[t]

\* line 30: if attempt < retries - 1
MayRetry(t) == attempt[t] < retries[t] - 1

\* line 28 without its `return`: the value is dropped and the loop goes on
ReturnMissing(t, v) ==
    /\ IF RangeHasNext(attempt[t], retries[t])
       THEN /\ attempt' = [attempt EXCEPT ![t] = @ + 1]
            /\ pc' = [pc EXCEPT ![t] = "attempting"]
            /\ UNCHANGED result
       ELSE /\ pc' = [pc EXCEPT ![t] = "returned"]
            /\ result' = [result EXCEPT ![t] = [kind |-> "None"]]
            /\ UNCHANGED attempt
    /\ UNCHANGED <<error, opErrors, sleeps, printed, running>>

\* line 28: return await func(...), func having returned v
Return(t, v) ==
    /\ pc' = [pc EXCEPT ![t] = "returned"]
    /\ result' = [result EXCEPT ![t] = v]
    /\ UNCHANGED <<attempt, error, opErrors, sleeps, printed, running>>

\* line 36 raising the first exception of the invocation, not the current one
ReraiseFirst(t, e) == error' = [error EXCEPT ![t] = Head(Append(opErrors[t], e))]

\* line 36: a bare `raise` re-raises the exception being handled
Reraise(t, e) == error' = [error EXCEPT ![t] = e]

\* lines 29-36: func raised e.  Either print, start the backoff sleep and give
\* up the event loop, or print and re-raise e.
Except(t, e) ==
    /\ opErrors' = [opErrors EXCEPT ![t] = Append(@, e)]
    /\ IF MayRetry(t)
       THEN \E j \in Jitter :
              LET sleep_time == SleepTime(delay[t], j) IN
              /\ printed' = [printed EXCEPT
                     ![t] = Append(@, RetryingLine(sleep_time, attempt[t] + 1))]
              /\ sleeps' = [sleeps EXCEPT ![t] = Append(@, sleep_time)]
              /\ pc' = [pc EXCEPT ![t] = "sleeping"]
              /\ running' = NoTask
              /\ UNCHANGED error
       ELSE /\ printed' = [printed EXCEPT ![t] = Append(@, MaxRetriesLine(e))]
            /\ pc' = [pc EXCEPT ![t] = "raised"]
            /\ Reraise(t, e)
            /\ UNCHANGED <<sleeps, running>>
    /\ UNCHANGED <<attempt, result>>

\* lines 13, 26: a call async_retry(f, R, D) up to the first func call, or
\* through the empty loop to the end of the function body (an implicit
\* `return None`)
AsyncRetryEnter(t, f, R, D) ==
    /\ func' = [func EXCEPT ![t] = f]
    /\ retries' = [retries EXCEPT ![t] = R]
    /\ delay' = [delay EXCEPT ![t] = D]
    /\ calls' = [calls EXCEPT ![t] = 0]
    /\ builds' = [builds EXCEPT ![t] = 0]
    /\ retrievals' = [retrievals EXCEPT ![t] = 0]
    /\ opErrors' = [opErrors EXCEPT ![t] = <<>>]
    /\ sleeps' = [sleeps EXCEPT ![t] = <<>>]
    /\ printed' = [printed EXCEPT ![t] = <<>>]
    /\ result' = [result EXCEPT ![t] = None]
    /\ error' = [error EXCEPT ![t] = None]
    /\ IF RangeHasNext(-1, R)
       THEN /\ attempt' = [attempt EXCEPT ![t] = 0]
            /\ pc' = [pc EXCEPT ![t] = "attempting"]
       ELSE /\ attempt' = [attempt EXCEPT ![t] = -1]
            /\ pc' = [pc EXCEPT ![t] = "returned"]

\* a retry made by calling async_retry again, which starts the count afresh
WakeRestart(t) ==
    /\ running = NoTask
    /\ pc[t] = "sleeping"
    /\ running' = t
    /\ AsyncRetryEnter(t, func[t], retries[t], delay[t])
    /\ UNCHANGED <<client, deterministic, harnessVars, mainVars>>

\* an attempt counter kept on the object and shared by every invocation
WakeSharedAttempt(t) ==
    /\ running = NoTask
    /\ pc[t] = "sleeping"
    /\ running' = t
    /\ IF RangeHasNext(attempt[t], retries[t])
       THEN /\ attempt' = [u \in DOMAIN attempt |-> attempt[t] + 1]
            /\ pc' = [pc EXCEPT ![t] = "attempting"]
       ELSE /\ pc' = [pc EXCEPT ![t] = "returned"]
            /\ UNCHANGED attempt
    /\ UNCHANGED <<func, retries, delay, result, error, calls, opErrors, sleeps,
                   printed, builds, retrievals, client, deterministic>>
    /\ UNCHANGED <<harnessVars, mainVars>>

\* line 33 completes: the event loop resumes the sleeping task, which goes on
\* to the next iteration of line 26
Wake(t) ==
    /\ running = NoTask
    /\ pc[t] = "sleeping"
    /\ running' = t
    /\ IF RangeHasNext(attempt[t], retries[t])
       THEN /\ attempt' = [attempt EXCEPT ![t] = @ + 1]
            /\ pc' = [pc EXCEPT ![t] = "attempting"]
       ELSE /\ pc' = [pc EXCEPT ![t] = "returned"]
            /\ UNCHANGED attempt
    /\ UNCHANGED <<func, retries, delay, result, error, calls, opErrors, sleeps,
                   printed, builds, retrievals, client, deterministic>>
    /\ UNCHANGED <<harnessVars, mainVars>>

-----------------------------------------------------------------------------
(* async_retry around an arbitrary operation.  The operation is a script:   *)
(* its k-th call returns Value(k) when script[k], and raises Err("func", k) *)
(* otherwise.                                                               *)

Scripts == [1 .. MaxR -> BOOLEAN]
Retries == (0 - 1) .. MaxR
Delays == {0, 1, DefaultDelay}

NoFunc == [kind |-> "none"]
Scripted(s) == [kind |-> "scripted", script |-> s]

\* a caller starts `await self.async_retry(func, R, D)` as a task
Invoke(t) ==
    /\ running = NoTask
    /\ pc[t] = "idle"
    /\ running' = t
    /\ \E R \in Retries, D \in Delays, s \in Scripts :
           AsyncRetryEnter(t, Scripted(s), R, D)
    /\ UNCHANGED <<client, deterministic, harnessVars, mainVars>>

\* line 28: await func(*args, **kwargs) for a scripted func
CallFunc(t) ==
    /\ running = t
    /\ pc[t] = "attempting"
    /\ func[t].kind = "scripted"
    /\ calls' = [calls EXCEPT ![t] = @ + 1]
    /\ LET k == calls[t] + 1 IN
       IF func[t].script[k]
       THEN Return(t, Value(k))
       ELSE Except(t, Err("func", k))
    /\ UNCHANGED <<func, retries, delay, builds, retrievals, client, deterministic>>
    /\ UNCHANGED <<harnessVars, mainVars>>

RetryTasks == {"T1"}

NoPayload == [kind |-> "none"]

InitRetry ==
    /\ running = NoTask
    /\ pc = [t \in RetryTasks |-> "idle"]
    /\ func = [t \in RetryTasks |-> NoFunc]
    /\ retries = [t \in RetryTasks |-> DefaultRetries]
    /\ delay = [t \in RetryTasks |-> DefaultDelay]
    /\ attempt = [t \in RetryTasks |-> -1]
    /\ result = [t \in RetryTasks |-> None]
    /\ error = [t \in RetryTasks |-> None]
    /\ calls = [t \in RetryTasks |-> 0]
    /\ opErrors = [t \in RetryTasks |-> <<>>]
    /\ sleeps = [t \in RetryTasks |-> <<>>]
    /\ printed = [t \in RetryTasks |-> <<>>]
    /\ builds = [t \in RetryTasks |-> 0]
    /\ retrievals = [t \in RetryTasks |-> 0]
    /\ client = NoPayload
    /\ deterministic = FALSE
    /\ probe = NoFunc
    /\ probeResult = None
    /\ probeBetween = FALSE
    /\ mainPc = [step |-> 0, at |-> "none"]
    /\ mainData = None
    /\ mainLog = <<>>
    /\ plots = <<>>

NextRetry ==
    \/ \E t \in Tasks : Invoke(t)
    \/ \E t \in Tasks : CallFunc(t)
    \/ \E t \in Tasks : Wake(t)

SpecRetry == InitRetry /\ [][NextRetry]_vars

\* every await of the file finishes: a func call ends and a sleep elapses
FairSpecRetry ==
    SpecRetry /\ \A t \in RetryTasks : WF_vars(CallFunc(t)) /\ WF_vars(Wake(t))

-----------------------------------------------------------------------------
(* The query facades, lines 38-66, and the provider client self.pytrends *)

MainKeywords == <<"Black Friday Deals", "Cyber Monday Deals", "Holiday Sales">>
KeywordLists == {<<"Holiday Sales">>, MainKeywords}
Keywords == {"Holiday Sales", "Black Friday Deals"}
Timeframes == {"today 12-m", "today 5-y"}
Geos == {"", "US"}
Resolutions == {"COUNTRY", "REGION"}
\* build_payload's own default when a facade passes no timeframe
ClientDefaultTimeframe == "today 5-y"

\* the facade calls, as the operation each hands to async_retry
InterestOverTime(kw, tf, g) ==
    [kind |-> "get_interest_over_time", keywords |-> kw, timeframe |-> tf, geo |-> g]
InterestByRegion(k, r, g) ==
    [kind |-> "get_interest_by_region", keyword |-> k, resolution |-> r, geo |-> g]
RelatedQueries(k, g) ==
    [kind |-> "get_related_queries", keyword |-> k, geo |-> g]

FacadeCalls ==
    {InterestOverTime(kw, tf, g) : kw \in KeywordLists, tf \in Timeframes, g \in Geos}
    \cup {InterestByRegion(k, r, g) : k \in Keywords, r \in Resolutions, g \in Geos}
    \cup {RelatedQueries(k, g) : k \in Keywords, g \in Geos}

IsFacade(t) ==
    func[t].kind \in {"get_interest_over_time", "get_interest_by_region",
                      "get_related_queries"}

\* a payload that keeps the client's geo when the facade is given none
PayloadKeepsGeo(f) ==
    [kw_list |-> IF f.kind = "get_interest_over_time" THEN f.keywords
                 ELSE <<f.keyword>>,
     timeframe |-> IF f.kind = "get_interest_over_time" THEN f.timeframe
                   ELSE "today 5-y",
     geo |-> IF f.geo = "" /\ client # [kind |-> "none"] THEN client.geo ELSE f.geo]

\* lines 43, 53, 63: the payload self.pytrends.build_payload(...) is given
PayloadOf(f) ==
    IF f.kind = "get_interest_over_time"
    THEN [kw_list |-> f.keywords, timeframe |-> f.timeframe, geo |-> f.geo]
    ELSE [kw_list |-> <<f.keyword>>, timeframe |-> ClientDefaultTimeframe,
          geo |-> f.geo]

\* lines 44, 54, 64: the retrieval method of each facade
MethodOf(f) ==
    IF f.kind = "get_interest_over_time" THEN "interest_over_time"
    ELSE IF f.kind = "get_interest_by_region" THEN "interest_by_region"
    ELSE "related_queries"

\* what the provider answers: a table (a dict of tables for related_queries)
\* for the payload the client holds, with rows or without
Retrieved(f, payload, data) ==
    [kind |-> IF MethodOf(f) = "related_queries" THEN "dict" ELSE "table",
     method |-> MethodOf(f),
     request |-> payload,
     resolution |-> IF f.kind = "get_interest_by_region" THEN f.resolution ELSE "",
     empty |-> (data = "empty"),
     index |-> IF MethodOf(f) = "interest_over_time" THEN "date" ELSE "geoName",
     columns |-> IF data = "empty" THEN <<>>
                 ELSE IF MethodOf(f) = "interest_over_time"
                      THEN payload.kw_list \o <<"isPartial">>
                      ELSE payload.kw_list]

\* a deterministic fake answers every request with rows and never fails
ProviderData == IF deterministic THEN {"rows"} ELSE {"rows", "empty"}
ProviderMayFail == ~deterministic

\* the fetch closure rebuilding the payload on the first attempt only
BuildOnce(t) ==
    /\ running = t
    /\ pc[t] = "attempting"
    /\ IsFacade(t)
    /\ calls' = [calls EXCEPT ![t] = @ + 1]
    /\ builds' = [builds EXCEPT ![t] = IF attempt[t] = 0 THEN @ + 1 ELSE @]
    /\ client' = IF attempt[t] = 0 THEN PayloadOf(func[t]) ELSE client
    /\ pc' = [pc EXCEPT ![t] = "built"]
    /\ UNCHANGED <<attempt, result, error, opErrors, sleeps, printed, running>>
    /\ UNCHANGED <<func, retries, delay, retrievals, deterministic>>
    /\ UNCHANGED <<harnessVars, mainVars>>

\* a build_payload that is awaited: the task gives up the event loop between
\* the build and the retrieval
BuildYields(t) ==
    /\ running = t
    /\ pc[t] = "attempting"
    /\ IsFacade(t)
    /\ calls' = [calls EXCEPT ![t] = @ + 1]
    /\ builds' = [builds EXCEPT ![t] = @ + 1]
    /\ client' = PayloadOf(func[t])
    /\ pc' = [pc EXCEPT ![t] = "built"]
    /\ running' = NoTask
    /\ UNCHANGED <<attempt, result, error, opErrors, sleeps, printed>>
    /\ UNCHANGED <<func, retries, delay, retrievals, deterministic>>
    /\ UNCHANGED <<harnessVars, mainVars>>

\* line 28 calling fetch(), then lines 43, 53, 63: build_payload, which stores
\* the payload in the client or raises
Build(t) ==
    /\ running = t
    /\ pc[t] = "attempting"
    /\ IsFacade(t)
    /\ calls' = [calls EXCEPT ![t] = @ + 1]
    /\ builds' = [builds EXCEPT ![t] = @ + 1]
    /\ \/ /\ client' = PayloadOf(func[t])
          /\ pc' = [pc EXCEPT ![t] = "built"]
          /\ UNCHANGED <<attempt, result, error, opErrors, sleeps, printed, running>>
       \/ /\ ProviderMayFail
          /\ Except(t, Err("build_payload", calls[t] + 1))
          /\ UNCHANGED client
    /\ UNCHANGED <<func, retries, delay, retrievals, deterministic>>
    /\ UNCHANGED <<harnessVars, mainVars>>

\* lines 44, 54, 64: the retrieval, which returns the provider's answer for
\* the payload the client holds or raises
Retrieve(t) ==
    /\ running = t
    /\ pc[t] = "built"
    /\ retrievals' = [retrievals EXCEPT ![t] = @ + 1]
    /\ \/ \E data \in ProviderData : Return(t, Retrieved(func[t], client, data))
       \/ /\ ProviderMayFail
          /\ Except(t, Err(MethodOf(func[t]), calls[t]))
    /\ UNCHANGED <<func, retries, delay, calls, builds, client, deterministic>>
    /\ UNCHANGED <<harnessVars, mainVars>>

\* what an ended invocation hands its caller: the value returned or the
\* exception raised
Outcome(t) == IF pc[t] = "raised" THEN error[t] ELSE result[t]

\* lines 46, 56, 66: return await self.async_retry(fetch), retries and delay
\* left to their defaults
FacadeEnter(t, f) == AsyncRetryEnter(t, f, DefaultRetries, DefaultDelay)

(* Callers of the facades: any sequence of facade calls on one object, each  *)
(* awaited to its end before the next.                                       *)

\* lines 38, 48, 58: a facade is called with some inputs
CallFacade(t) ==
    /\ running = NoTask
    /\ pc[t] = "idle"
    /\ running' = t
    /\ \E f \in FacadeCalls : FacadeEnter(t, f)
    /\ UNCHANGED <<client, deterministic, harnessVars, mainVars>>

\* lines 46, 56, 66: the facade hands async_retry's outcome to its caller, who
\* keeps the first outcome of the probed call
FacadeReturn(t) ==
    /\ running = t
    /\ Done(t)
    /\ running' = NoTask
    /\ pc' = [pc EXCEPT ![t] = "idle"]
    /\ probeResult' = IF func[t] = probe /\ probeResult = None
                      THEN Outcome(t) ELSE probeResult
    /\ probeBetween' = (probeBetween \/ (/\ probeResult # None
                                          /\ func[t] # probe
                                          /\ PayloadOf(func[t]) # PayloadOf(probe)))
    /\ UNCHANGED <<func, retries, delay, attempt, result, error, calls, opErrors,
                   sleeps, printed, builds, retrievals, client, deterministic,
                   probe, mainVars>>

InitFacade ==
    /\ running = NoTask
    /\ pc = [t \in RetryTasks |-> "idle"]
    /\ func = [t \in RetryTasks |-> NoFunc]
    /\ retries = [t \in RetryTasks |-> DefaultRetries]
    /\ delay = [t \in RetryTasks |-> DefaultDelay]
    /\ attempt = [t \in RetryTasks |-> -1]
    /\ result = [t \in RetryTasks |-> None]
    /\ error = [t \in RetryTasks |-> None]
    /\ calls = [t \in RetryTasks |-> 0]
    /\ opErrors = [t \in RetryTasks |-> <<>>]
    /\ sleeps = [t \in RetryTasks |-> <<>>]
    /\ printed = [t \in RetryTasks |-> <<>>]
    /\ builds = [t \in RetryTasks |-> 0]
    /\ retrievals = [t \in RetryTasks |-> 0]
    /\ client = NoPayload
    /\ \/ deterministic = TRUE /\ probe \in FacadeCalls
       \/ deterministic = FALSE /\ probe = NoFunc
    /\ probeResult = None
    /\ probeBetween = FALSE
    /\ mainPc = [step |-> 0, at |-> "none"]
    /\ mainData = None
    /\ mainLog = <<>>
    /\ plots = <<>>

NextFacade ==
    \/ \E t \in Tasks : CallFacade(t)
    \/ \E t \in Tasks : Build(t)
    \/ \E t \in Tasks : Retrieve(t)
    \/ \E t \in Tasks : Wake(t)
    \/ \E t \in Tasks : FacadeReturn(t)

SpecFacade == InitFacade /\ [][NextFacade]_vars

-----------------------------------------------------------------------------
(* main(), lines 94-122, run by asyncio.run as the only task, and the plot   *)
(* functions, lines 68-91                                                    *)

MainTask == "main"

\* lines 106, 116: the two facade calls of main
MainCall(s) ==
    IF s = 1 THEN InterestOverTime(MainKeywords, "today 12-m", "US")
    ELSE InterestByRegion("Holiday Sales", "COUNTRY", "US")

\* lines 108, 118 and 112, 122: the lines main prints
NoDataLine(s) == [line |-> "No data retrieved", step |-> s]
FailedLine(s, e) == [line |-> "Failed to fetch", step |-> s, error |-> e]

At(s, where) == [step |-> s, at |-> where]
\* after step 1 comes step 2 (line 114), after step 2 the end of main
NextStep(s) == IF s = 1 THEN At(2, "fetch") ELSE At(3, "done")

\* an emptiness test that never finds a table empty
IsEmptyNever(v) == FALSE

\* lines 107, 117: interest_over_time.empty
IsEmpty(v) == v.empty

\* a step without its try/except: the exception ends main
MainExceptUncaught(s, e) ==
    /\ mainPc' = At(3, "done")
    /\ UNCHANGED mainLog

\* an except clause that prints and then runs its step again
MainExceptRetryStep(s, e) ==
    /\ mainLog' = Append(mainLog, [line |-> "Failed to fetch", step |-> s, error |-> e])
    /\ mainPc' = [step |-> s, at |-> "fetch"]

\* lines 111-112, 121-122: except Exception as e: print(...), and on to
\* what follows the try statement
MainExcept(s, e) ==
    /\ mainLog' = Append(mainLog, FailedLine(s, e))
    /\ mainPc' = NextStep(s)

\* lines 72, 81: data.reset_index(inplace=True) moves the index into the
\* first column of the same table object
ResetIndex(d) ==
    [d EXCEPT !.index = "RangeIndex", !.columns = <<d.index>> \o d.columns]

\* lines 106, 116: main calls the facade of step s
MainFetch(s) ==
    /\ running = MainTask
    /\ mainPc = At(s, "fetch")
    /\ FacadeEnter(MainTask, MainCall(s))
    /\ mainPc' = At(s, "await")
    /\ UNCHANGED <<running, client, deterministic, harnessVars, mainData,
                   mainLog, plots>>

\* lines 106-109, 111-112 (116-119, 121-122): the facade call has ended; its
\* exception is caught and printed, an empty table is reported, and any other
\* table goes to the plot function
MainAfterFetch(s) ==
    /\ running = MainTask
    /\ mainPc = At(s, "await")
    /\ Done(MainTask)
    /\ pc' = [pc EXCEPT ![MainTask] = "idle"]
    /\ IF pc[MainTask] = "raised"
       THEN /\ MainExcept(s, error[MainTask])
            /\ UNCHANGED mainData
       ELSE /\ mainData' = result[MainTask]
            /\ IF IsEmpty(result[MainTask])
               THEN /\ mainLog' = Append(mainLog, NoDataLine(s))
                    /\ mainPc' = NextStep(s)
               ELSE /\ mainPc' = At(s, "plot")
                    /\ UNCHANGED mainLog
    /\ running' = IF mainPc'.at = "done" THEN NoTask ELSE running
    /\ UNCHANGED <<func, retries, delay, attempt, result, error, calls, opErrors,
                   sleeps, printed, builds, retrievals, client, deterministic,
                   harnessVars, plots>>

\* lines 110, 68-75 (120, 77-91): the plot function resets the index of the
\* table it is given, then builds and shows the figure, which may raise; the
\* exception is caught by main's except clause
MainPlot(s) ==
    /\ running = MainTask
    /\ mainPc = At(s, "plot")
    /\ mainData' = ResetIndex(mainData)
    /\ plots' = Append(plots, [step |-> s, data |-> mainData])
    /\ \/ /\ mainPc' = NextStep(s)
          /\ UNCHANGED mainLog
       \/ MainExcept(s, Err("plot", s))
    /\ running' = IF mainPc'.at = "done" THEN NoTask ELSE running
    /\ UNCHANGED <<retryVars, client, deterministic, harnessVars>>

MainTasks == {MainTask}

\* line 95: trends = GoogleTrendsSEOAsync(), main about to make its first call
Init ==
    /\ running = MainTask
    /\ pc = [t \in MainTasks |-> "idle"]
    /\ func = [t \in MainTasks |-> NoFunc]
    /\ retries = [t \in MainTasks |-> DefaultRetries]
    /\ delay = [t \in MainTasks |-> DefaultDelay]
    /\ attempt = [t \in MainTasks |-> -1]
    /\ result = [t \in MainTasks |-> None]
    /\ error = [t \in MainTasks |-> None]
    /\ calls = [t \in MainTasks |-> 0]
    /\ opErrors = [t \in MainTasks |-> <<>>]
    /\ sleeps = [t \in MainTasks |-> <<>>]
    /\ printed = [t \in MainTasks |-> <<>>]
    /\ builds = [t \in MainTasks |-> 0]
    /\ retrievals = [t \in MainTasks |-> 0]
    /\ client = NoPayload
    /\ deterministic = FALSE
    /\ probe = NoFunc
    /\ probeResult = None
    /\ probeBetween = FALSE
    /\ mainPc = At(1, "fetch")
    /\ mainData = None
    /\ mainLog = <<>>
    /\ plots = <<>>

Next ==
    \/ MainFetch(1)
    \/ MainAfterFetch(1)
    \/ MainPlot(1)
    \/ MainFetch(2)
    \/ MainAfterFetch(2)
    \/ MainPlot(2)
    \/ \E t \in Tasks : Build(t)
    \/ \E t \in Tasks : Retrieve(t)
    \/ \E t \in Tasks : Wake(t)

Spec == Init /\ [][Next]_vars

\* every await of main finishes, and main runs on when it may
FairSpec == Spec /\ WF_vars(Next)

-----------------------------------------------------------------------------
(* Two invocations run as concurrent asyncio tasks on one event loop and    *)
(* one GoogleTrendsSEOAsync object.  A task runs from the moment the loop   *)
(* starts or resumes it to its next await asyncio.sleep (line 33) or to its *)
(* end.                                                                     *)

ConcTasks == {"T1", "T2"}

\* the facade call of each task: the two calls main makes
ConcCall(t) == IF t = "T1" THEN MainCall(1) ELSE MainCall(2)

\* the operations and retry counts of concurrent async_retry invocations
ConcScripts == [1 .. DefaultRetries -> BOOLEAN]
ConcRetries == 1 .. DefaultRetries

\* the event loop starts a task that awaits a facade
StartFacade(t) ==
    /\ running = NoTask
    /\ pc[t] = "idle"
    /\ running' = t
    /\ FacadeEnter(t, ConcCall(t))
    /\ UNCHANGED <<client, deterministic, harnessVars, mainVars>>

\* the event loop starts a task that awaits async_retry(func, R)
StartRetry(t) ==
    /\ running = NoTask
    /\ pc[t] = "idle"
    /\ running' = t
    /\ \E R \in ConcRetries, s \in ConcScripts :
           AsyncRetryEnter(t, Scripted(s), R, DefaultDelay)
    /\ UNCHANGED <<client, deterministic, harnessVars, mainVars>>

\* lines 28, 36: the coroutine of the task has returned or raised, and the
\* event loop takes over
TaskEnd(t) ==
    /\ running = t
    /\ Done(t)
    /\ running' = NoTask
    /\ UNCHANGED <<retryVars, client, deterministic, harnessVars, mainVars>>

InitConc ==
    /\ running = NoTask
    /\ pc = [t \in ConcTasks |-> "idle"]
    /\ func = [t \in ConcTasks |-> NoFunc]
    /\ retries = [t \in ConcTasks |-> DefaultRetries]
    /\ delay = [t \in ConcTasks |-> DefaultDelay]
    /\ attempt = [t \in ConcTasks |-> -1]
    /\ result = [t \in ConcTasks |-> None]
    /\ error = [t \in ConcTasks |-> None]
    /\ calls = [t \in ConcTasks |-> 0]
    /\ opErrors = [t \in ConcTasks |-> <<>>]
    /\ sleeps = [t \in ConcTasks |-> <<>>]
    /\ printed = [t \in ConcTasks |-> <<>>]
    /\ builds = [t \in ConcTasks |-> 0]
    /\ retrievals = [t \in ConcTasks |-> 0]
    /\ client = NoPayload
    /\ deterministic = FALSE
    /\ probe = NoFunc
    /\ probeResult = None
    /\ probeBetween = FALSE
    /\ mainPc = [step |-> 0, at |-> "none"]
    /\ mainData = None
    /\ mainLog = <<>>
    /\ plots = <<>>

NextConcFacade ==
    \/ \E t \in Tasks : StartFacade(t)
    \/ \E t \in Tasks : Build(t)
    \/ \E t \in Tasks : Retrieve(t)
    \/ \E t \in Tasks : Wake(t)
    \/ \E t \in Tasks : TaskEnd(t)

SpecConcFacade == InitConc /\ [][NextConcFacade]_vars

NextConcRetry ==
    \/ \E t \in Tasks : StartRetry(t)
    \/ \E t \in Tasks : CallFunc(t)
    \/ \E t \in Tasks : Wake(t)
    \/ \E t \in Tasks : TaskEnd(t)

SpecConcRetry == InitConc /\ [][NextConcRetry]_vars

-----------------------------------------------------------------------------
(* Properties of async_retry (SpecRetry, FairSpecRetry) *)

IsScripted(t) == func[t].kind = "scripted"
\* the operation fails on every call
AlwaysFails(t) == \A k \in DOMAIN func[t].script : ~func[t].script[k]
\* the operation fails on its first k-1 calls and succeeds on its k-th
SucceedsAt(t, k) ==
    /\ k \in DOMAIN func[t].script
    /\ func[t].script[k]
    /\ \A i \in 1 .. (k - 1) : ~func[t].script[i]

\* C1: with retries >= 1 and an operation that fails on every call, the
\* operation is never called more than `retries` times, the invocation never
\* returns, it has ended exactly when the `retries`-th call has failed, and it
\* ends by raising, with no value returned.
C1_AlwaysFailingCalledExactlyR ==
    \A t \in Tasks :
        (IsScripted(t) /\ retries[t] >= 1 /\ AlwaysFails(t)) =>
            /\ calls[t] <= retries[t]
            /\ pc[t] # "returned"
            /\ (calls[t] = retries[t]) <=> (pc[t] = "raised")
            /\ pc[t] = "raised" => (error[t] # None /\ result[t] = None)

C1_Witness ==
    \E t \in Tasks :
        /\ IsScripted(t) /\ AlwaysFails(t)
        /\ retries[t] = MaxR /\ pc[t] = "raised" /\ calls[t] = MaxR

\* C2: with retries >= 1 and an operation that first succeeds on its k-th
\* call, k <= retries, the operation is never called more than k times, the
\* invocation never raises, and once the k-th call is made the invocation has
\* returned that call's value, after k-1 sleeps and still holding the event
\* loop (no sleep follows the success).
C2_SuccessAtKReturnsKthValue ==
    \A t \in Tasks : \A k \in 1 .. MaxR :
        (IsScripted(t) /\ retries[t] >= 1 /\ k <= retries[t] /\ SucceedsAt(t, k)) =>
            /\ calls[t] <= k
            /\ pc[t] # "raised"
            /\ (calls[t] = k) <=> (pc[t] = "returned")
            /\ pc[t] = "returned" =>
                  /\ result[t] = Value(k)
                  /\ error[t] = None
                  /\ Len(sleeps[t]) = k - 1
                  /\ running = t

C2_Witness ==
    \E t \in Tasks :
        /\ IsScripted(t) /\ SucceedsAt(t, 2) /\ retries[t] = MaxR
        /\ pc[t] = "returned" /\ calls[t] = 2 /\ result[t] = Value(2)
        /\ Len(sleeps[t]) = 1

\* C3: an invocation that has raised made exactly `retries` calls, all of
\* them failed, and the error it raised is the one of the last call, which the
\* last printed line ("Max retries reached. Last error: ...") names; no error
\* is held for the caller before that; and after raising the invocation makes
\* no call, sleeps no more and stays raised.
C3_RaisedState ==
    \A t \in Tasks :
        /\ pc[t] = "raised" =>
              /\ retries[t] >= 1
              /\ attempt[t] = retries[t] - 1
              /\ calls[t] = retries[t]
              /\ Len(opErrors[t]) = retries[t]
              /\ error[t] = opErrors[t][retries[t]]
              /\ IsScripted(t) => error[t] = Err("func", retries[t])
              /\ \A i \in 1 .. (retries[t] - 1) : opErrors[t][i] # error[t]
              /\ Len(printed[t]) = retries[t]
              /\ printed[t][retries[t]] = MaxRetriesLine(error[t])
        /\ pc[t] # "raised" => error[t] = None

C3_RaisedIsFinal ==
    \A t \in Tasks :
        pc[t] = "raised" =>
            /\ pc'[t] = "raised"
            /\ error'[t] = error[t]
            /\ calls'[t] = calls[t]
            /\ sleeps'[t] = sleeps[t]

C4_SleepHalfOpen ==
    \A t \in Tasks : \A i \in DOMAIN sleeps[t] :
        /\ delay[t] * Tick <= sleeps[t][i]
        /\ sleeps[t][i] < (delay[t] + JitterMax) * Tick

\* C4, amended: every sleep_time lies in the closed interval
\* [delay, delay + 2], and in [0, 2) when delay = 0: the jitter is below 2,
\* but delay + jitter is a float addition, which rounds to delay + 2 for the
\* largest jitter when delay >= 1.
C4_SleepClosed ==
    \A t \in Tasks : \A i \in DOMAIN sleeps[t] :
        /\ delay[t] * Tick <= sleeps[t][i]
        /\ sleeps[t][i] <= (delay[t] + JitterMax) * Tick
        /\ delay[t] = 0 => sleeps[t][i] < JitterMax * Tick

\* two retries of one invocation sleeping for different durations
C4_Witness ==
    \E t \in Tasks :
        /\ Len(sleeps[t]) >= 2
        /\ sleeps[t][1] # sleeps[t][2]
        /\ delay[t] = DefaultDelay

\* C9: the states Attempting(i) (pc "attempting", attempt i), the backoff
\* sleep between two of them (pc "sleeping"), Succeeded (pc "returned") and
\* Failed (pc "raised").
C9_StateInvariant ==
    \A t \in Tasks :
        (pc[t] # "idle" /\ retries[t] >= 1) =>
            /\ attempt[t] \in 0 .. (retries[t] - 1)
            /\ pc[t] = "attempting" =>
                  calls[t] = attempt[t] /\ Len(sleeps[t]) = attempt[t]
            /\ pc[t] = "sleeping" =>
                  /\ attempt[t] < retries[t] - 1
                  /\ calls[t] = attempt[t] + 1
                  /\ Len(sleeps[t]) = attempt[t] + 1
            /\ pc[t] = "raised" => calls[t] = retries[t]
            /\ Done(t) => Len(sleeps[t]) = calls[t] - 1

C9_Transitions ==
    \A t \in Tasks :
        \* the start is Attempting(0)
        /\ (pc[t] = "idle" /\ pc'[t] # "idle" /\ retries'[t] >= 1) =>
              pc'[t] = "attempting" /\ attempt'[t] = 0
        \* Attempting(i) ends in Succeeded, in Failed when i = R-1, and in the
        \* backoff sleep otherwise; only the last adds a sleep, and exactly one
        /\ (pc[t] = "attempting" /\ pc'[t] # "attempting") =>
              /\ attempt'[t] = attempt[t]
              /\ calls'[t] = calls[t] + 1
              /\ pc'[t] \in {"returned", "raised", "sleeping"}
              /\ pc'[t] = "raised" => attempt[t] = retries[t] - 1
              /\ pc'[t] = "sleeping" =>
                    attempt[t] < retries[t] - 1 /\ Len(sleeps'[t]) = Len(sleeps[t]) + 1
              /\ pc'[t] \in {"returned", "raised"} => sleeps'[t] = sleeps[t]
              /\ attempt[t] = retries[t] - 1 => pc'[t] \in {"returned", "raised"}
        \* the sleep ends in Attempting(i+1)
        /\ (pc[t] = "sleeping" /\ pc'[t] # "sleeping") =>
              /\ pc'[t] = "attempting"
              /\ attempt'[t] = attempt[t] + 1
              /\ sleeps'[t] = sleeps[t]
              /\ calls'[t] = calls[t]
        \* the attempt index changes in no other way
        /\ (pc[t] # "idle" /\ attempt'[t] # attempt[t]) => pc[t] = "sleeping"
        \* Succeeded and Failed are terminal
        /\ Done(t) =>
              /\ pc'[t] = pc[t]
              /\ attempt'[t] = attempt[t]
              /\ calls'[t] = calls[t]
              /\ sleeps'[t] = sleeps[t]

\* C9: async_retry moves as the state machine Attempting(i) / Succeeded /
\* Failed describes, with one sleep between two attempts and none at the end.
C9_RetryStateMachine == []C9_StateInvariant /\ [][C9_Transitions]_vars

C9_Witness ==
    \E t \in Tasks :
        /\ pc[t] = "raised" /\ retries[t] = MaxR
        /\ attempt[t] = MaxR - 1 /\ Len(sleeps[t]) = MaxR - 1

\* C10: under FairSpecRetry (every func call and every sleep finishes), an
\* invocation that has begun its loop reaches "returned" or "raised".
C10_RunsToCompletion ==
    \A t \in RetryTasks :
        (pc[t] \in {"attempting", "sleeping"}) ~> Done(t)

C10_Witness ==
    \E t \in Tasks :
        /\ pc[t] = "sleeping" /\ attempt[t] = MaxR - 2 /\ retries[t] = MaxR

-----------------------------------------------------------------------------
(* Properties of the facades (SpecFacade) *)

\* C7: against a deterministic provider, every call of a facade with the
\* probed inputs ends with the outcome of the first such call, which is the
\* provider's answer to the payload built from those inputs alone, whatever
\* facade calls were made before or in between.
C7_SameInputsSameResult ==
    \A t \in Tasks :
        (deterministic /\ Done(t) /\ func[t] = probe) =>
            /\ Outcome(t) = Retrieved(probe, PayloadOf(probe), "rows")
            /\ probeResult # None => Outcome(t) = probeResult

C7_Witness ==
    \E t \in Tasks :
        /\ deterministic /\ Done(t) /\ func[t] = probe
        /\ probeResult # None /\ probeBetween
        /\ probe.geo = ""
        /\ Outcome(t) = probeResult

\* C8: a facade call is one invocation of async_retry with retries 3 and
\* delay 5, started once; it builds the payload once per attempt (so at most
\* 3 times), and a retrieval is made only after the build of the same attempt,
\* at most once, on the payload of this call.
C8_FacadeCounts ==
    \A t \in Tasks :
        IsFacade(t) =>
            /\ retries[t] = DefaultRetries /\ delay[t] = DefaultDelay
            /\ builds[t] = calls[t]
            /\ builds[t] <= DefaultRetries
            /\ retrievals[t] <= builds[t]
            /\ pc[t] = "attempting" => builds[t] = attempt[t]
            /\ pc[t] = "built" =>
                  /\ builds[t] = attempt[t] + 1
                  /\ retrievals[t] < builds[t]
                  /\ client = PayloadOf(func[t])
            /\ pc[t] = "sleeping" => builds[t] = attempt[t] + 1
            /\ Done(t) => builds[t] = attempt[t] + 1

C8_FacadeSteps ==
    \A t \in Tasks :
        \* the facade call starts async_retry with the defaults
        /\ (pc[t] = "idle" /\ pc'[t] # "idle") =>
              /\ IsFacade(t)'
              /\ retries'[t] = DefaultRetries /\ delay'[t] = DefaultDelay
              /\ pc'[t] = "attempting" /\ attempt'[t] = 0
              /\ calls'[t] = 0 /\ builds'[t] = 0 /\ retrievals'[t] = 0
        \* and never starts it again before it has ended
        /\ (pc[t] # "idle" /\ ~Done(t)) =>
              /\ func'[t] = func[t]
              /\ calls'[t] >= calls[t] /\ builds'[t] >= builds[t]
              /\ Len(sleeps'[t]) >= Len(sleeps[t])
        \* one build per attempt, first
        /\ builds'[t] > builds[t] =>
              /\ builds'[t] = builds[t] + 1
              /\ pc[t] = "attempting" /\ builds[t] = attempt[t]
              /\ retrievals'[t] = retrievals[t]
        \* then at most one retrieval
        /\ retrievals'[t] > retrievals[t] =>
              /\ retrievals'[t] = retrievals[t] + 1
              /\ pc[t] = "built" /\ pc'[t] # "built"
              /\ builds'[t] = builds[t]
              /\ client = PayloadOf(func[t])

\* C8: the facades leave all retrying to one async_retry invocation with the
\* defaults, each attempt building the payload once before retrieving.
C8_FacadesDelegateRetry == []C8_FacadeCounts /\ [][C8_FacadeSteps]_vars

C8_Witness ==
    \E t \in Tasks :
        /\ func[t].kind = "get_related_queries"
        /\ pc[t] = "raised" /\ builds[t] = DefaultRetries
        /\ retrievals[t] = 2

-----------------------------------------------------------------------------
(* Properties of main (Spec, FairSpec) *)

Lines(log) == {log[i] : i \in DOMAIN log}
\* main has called get_interest_by_region (line 116)
Step2Started ==
    /\ mainPc.step >= 2
    /\ mainPc.at # "fetch"
    /\ func[MainTask].kind = "get_interest_by_region"

\* C5: main never ends without having started the regional fetch; step 1 is
\* left only for the start of step 2, whether its fetch raised (the exception
\* is caught and printed), returned an empty table, or its plot raised or
\* succeeded; and under FairSpec the regional fetch is eventually started.
C5_MainState ==
    /\ mainPc.at = "done" => func[MainTask].kind = "get_interest_by_region"
    /\ mainPc.step \in {1, 2, 3}
    /\ mainPc.step = 3 <=> mainPc.at = "done"

C5_Step1Exits ==
    (mainPc.step = 1 /\ mainPc' # mainPc) =>
        /\ mainPc'.step = 1 \/ mainPc' = At(2, "fetch")
        /\ (mainPc.at = "await" /\ pc[MainTask] = "raised") =>
              /\ mainPc' = At(2, "fetch")
              /\ mainLog' = Append(mainLog, FailedLine(1, error[MainTask]))
        /\ (mainPc.at = "await" /\ pc[MainTask] = "returned"
                /\ result[MainTask].empty) => mainPc' = At(2, "fetch")
        /\ mainPc.at = "plot" =>
              /\ mainPc' = At(2, "fetch")
              /\ \/ mainLog' = mainLog
                 \/ mainLog' = Append(mainLog, FailedLine(1, Err("plot", 1)))

\* C5: whatever the outcome of step 1, main goes on to start step 2.
C5_SecondStepAlwaysStarted ==
    /\ []C5_MainState
    /\ [][C5_Step1Exits]_vars
    /\ <>Step2Started

\* the regional fetch started after the first fetch had exhausted its retries
C5_Witness ==
    /\ Step2Started
    /\ Len(mainLog) >= 1
    /\ mainLog[1].line = "Failed to fetch"
    /\ mainLog[1].error.src = "interest_over_time"

\* C6: an answer of the provider ends the invocation at once as a success
\* with that table, empty or not (after one attempt when it is the first
\* call); main then prints "No data retrieved" for an empty table, without
\* plotting, and "Failed to fetch" for a raised fetch: a step that printed
\* "No data retrieved" has no plot call and no "Failed to fetch" line.
C6_EmptyIsSuccess ==
    \A t \in Tasks :
        (pc[t] = "built" /\ pc'[t] # "built" /\ opErrors'[t] = opErrors[t]) =>
            /\ pc'[t] = "returned"
            /\ \E data \in {"rows", "empty"} :
                   result'[t] = Retrieved(func[t], client, data)
            /\ calls'[t] = calls[t]
            /\ sleeps'[t] = sleeps[t]
            /\ running' = running

C6_EmptyFirstAnswer ==
    \A t \in Tasks :
        (pc[t] = "returned" /\ result[t].empty /\ opErrors[t] = <<>>) =>
            /\ calls[t] = 1 /\ builds[t] = 1 /\ retrievals[t] = 1
            /\ sleeps[t] = <<>>
            /\ error[t] = None

C6_MainPaths ==
    \A s \in {1, 2} :
        /\ (mainPc = At(s, "await") /\ mainPc' # mainPc
                /\ pc[MainTask] = "returned" /\ result[MainTask].empty) =>
              /\ mainLog' = Append(mainLog, NoDataLine(s))
              /\ plots' = plots
              /\ mainPc' = NextStep(s)
        /\ (mainPc = At(s, "await") /\ mainPc' # mainPc
                /\ pc[MainTask] = "raised") =>
              /\ mainLog' = Append(mainLog, FailedLine(s, error[MainTask]))
              /\ plots' = plots
              /\ mainPc' = NextStep(s)

C6_LogAndPlots ==
    \A s \in {1, 2} :
        NoDataLine(s) \in Lines(mainLog) =>
            /\ \A i \in DOMAIN plots : plots[i].step # s
            /\ \A l \in Lines(mainLog) :
                   l.step = s => l = NoDataLine(s)
            /\ mainPc.step > s

\* C6: an empty table is a success of the fetch, reported by main and never
\* plotted; a failed fetch takes the except path.
C6_EmptyTableNotRendered ==
    /\ [][C6_EmptyIsSuccess]_vars
    /\ []C6_EmptyFirstAnswer
    /\ [][C6_MainPaths]_vars
    /\ []C6_LogAndPlots

\* step 1 got an empty table from the provider's first answer
C6_Witness ==
    /\ mainPc = At(2, "fetch")
    /\ mainLog = <<NoDataLine(1)>>
    /\ calls[MainTask] = 1
    /\ mainData.empty
    /\ plots = <<>>

-----------------------------------------------------------------------------
(* Further properties of async_retry (SpecRetry) *)

RECURSIVE SumSeq(_)
SumSeq(q) == IF q = <<>> THEN 0 ELSE Head(q) + SumSeq(Tail(q))

\* C11: with retries >= 1, the sleep_time values of one invocation add up to
\* at most retries * (delay + 2) seconds, whatever the operation does; there
\* are at most retries - 1 of them.
C11_TotalSleepBounded ==
    \A t \in Tasks :
        retries[t] >= 1 =>
            /\ SumSeq(sleeps[t]) <= retries[t] * (delay[t] + JitterMax) * Tick
            /\ Len(sleeps[t]) <= retries[t] - 1

\* the longest total: every sleep of an exhausted invocation lasting delay + 2
C11_Witness ==
    \E t \in Tasks :
        /\ pc[t] = "raised" /\ retries[t] = MaxR /\ delay[t] = DefaultDelay
        /\ SumSeq(sleeps[t]) = (MaxR - 1) * (DefaultDelay + JitterMax) * Tick

\* C16: an invocation with retries <= 0 has, as soon as it is made, returned
\* None: func was never called, nothing slept, nothing printed, no error.
C16_NonPositiveRetriesReturnsNone ==
    \A t \in Tasks :
        (pc[t] # "idle" /\ retries[t] <= 0) =>
            /\ pc[t] = "returned"
            /\ result[t] = None
            /\ error[t] = None
            /\ calls[t] = 0 /\ opErrors[t] = <<>>
            /\ sleeps[t] = <<>> /\ printed[t] = <<>>
            /\ attempt[t] = -1

C16_Witness ==
    \E t \in Tasks :
        /\ retries[t] = 0 /\ pc[t] = "returned" /\ result[t] = None
        /\ IsScripted(t) /\ func[t].script[1]

-----------------------------------------------------------------------------
(* Properties of the plot calls of main (Spec) *)

PlotsOf(s) == {i \in DOMAIN plots : plots[i].step = s}

C12_PlotState ==
    /\ \A s \in {1, 2} :
          /\ Cardinality(PlotsOf(s)) <= 1
          /\ FailedLine(s, Err("plot", s)) \in Lines(mainLog) =>
                mainPc.step > s /\ Cardinality(PlotsOf(s)) = 1
    /\ \A i \in DOMAIN plots :
          plots[i].data = Retrieved(MainCall(plots[i].step),
                                    PayloadOf(MainCall(plots[i].step)), "rows")
    /\ mainPc.at = "plot" =>
          /\ pc[MainTask] = "idle"
          /\ error[MainTask] = None
          /\ mainData = result[MainTask]
          /\ ~mainData.empty
          /\ PlotsOf(mainPc.step) = {}
    /\ (mainPc.step = 2 /\ mainPc.at # "fetch") => func[MainTask] = MainCall(2)

C12_PlotSteps ==
    /\ mainPc'.step >= mainPc.step
    /\ plots' # plots => mainPc.at = "plot"
    /\ \A s \in {1, 2} :
          /\ (mainPc' = At(s, "plot") /\ mainPc # mainPc') =>
                /\ mainPc = At(s, "await")
                /\ pc[MainTask] = "returned"
                /\ ~result[MainTask].empty
          /\ (mainPc = At(s, "plot") /\ mainPc' # mainPc) =>
                /\ mainPc' = NextStep(s)
                /\ plots' = Append(plots, [step |-> s, data |-> mainData])
                /\ \/ mainLog' = mainLog
                   \/ mainLog' = Append(mainLog, FailedLine(s, Err("plot", s)))
                /\ UNCHANGED <<pc, func, calls, builds, retrievals, sleeps, client>>

\* C12: a step plots at most once, and only the non-empty table its fetch
\* returned; the plot step makes no provider call and starts no fetch, and it
\* ends, raised or not, in the next step, a raised exception being printed;
\* main never goes back to an earlier step.
C12_RenderingNotRetried == []C12_PlotState /\ [][C12_PlotSteps]_vars

\* both plots raised, each was called once, and main ended
C12_Witness ==
    /\ mainPc.at = "done"
    /\ Len(plots) = 2
    /\ mainLog = <<FailedLine(1, Err("plot", 1)), FailedLine(2, Err("plot", 2))>>

\* C13: a plot call leaves the table object it is given, the one the facade
\* returned to main, as it was: same index, same columns.
C13_PlotLeavesTableUnchanged ==
    [][mainPc.at = "plot" => mainData' = mainData]_vars

-----------------------------------------------------------------------------
(* Properties of concurrent invocations (SpecConcFacade, SpecConcRetry) *)

\* the task a step belongs to: the one running, or the one the loop starts
\* or resumes
Actor == IF running # NoTask THEN running ELSE running'

\* between its build_payload and its retrieval a task holds the event loop
\* and the client holds the payload this attempt built; every result is the
\* answer to the task's own payload
C14_BuiltHoldsLoop ==
    \A t \in Tasks :
        /\ pc[t] = "built" =>
              /\ running = t
              /\ client = PayloadOf(func[t])
              /\ builds[t] = calls[t]
        /\ pc[t] \in {"attempting", "built"} => running = t
        /\ pc[t] = "sleeping" => running # t
        /\ (pc[t] = "returned" /\ IsFacade(t)) =>
              /\ result[t].request = PayloadOf(func[t])
              /\ result[t].method = MethodOf(func[t])

\* a task stops running only by starting a backoff sleep or by ending, a
\* backoff sleep always gives up the loop, no step changes anything of a
\* task other than its actor, and each retrieval follows the build of its own
\* task with no step in between
C14_SuspendOnlyAtSleep ==
    /\ (running # NoTask /\ running' # running) =>
          /\ running' = NoTask
          /\ \/ pc[running] # "sleeping" /\ pc'[running] = "sleeping"
             \/ Done(running) /\ pc'[running] = pc[running]
    /\ \A t \in Tasks :
          /\ (pc[t] # "sleeping" /\ pc'[t] = "sleeping") =>
                running = t /\ running' = NoTask
          /\ t # Actor =>
                /\ pc'[t] = pc[t]
                /\ func'[t] = func[t]
                /\ result'[t] = result[t]
                /\ error'[t] = error[t]
                /\ builds'[t] = builds[t]
                /\ retrievals'[t] = retrievals[t]
          /\ retrievals'[t] # retrievals[t] =>
                /\ pc[t] = "built"
                /\ client = PayloadOf(func[t])
                /\ client' = client
          /\ pc[t] = "built" => retrievals'[t] = retrievals[t] + 1

\* C14: suspension occurs exactly at the backoff sleep: with two facade calls
\* running as concurrent tasks on one object, the build_payload and the
\* retrieval of one attempt run with no step of the other task between them,
\* and every attempt retrieves the result for the payload it built itself.
C14_AttemptAtomic == []C14_BuiltHoldsLoop /\ [][C14_SuspendOnlyAtSleep]_vars

\* T1 is between the build and the retrieval of its second attempt, T2 having
\* built its own, different payload into the shared client and gone to sleep
\* after its retrieval failed
C14_Witness ==
    /\ pc["T1"] = "built"
    /\ attempt["T1"] = 1
    /\ pc["T2"] = "sleeping"
    /\ retrievals["T2"] = 1
    /\ PayloadOf(func["T2"]) # PayloadOf(func["T1"])
    /\ client = PayloadOf(func["T1"])

\* the retry state of every invocation is what it would be were it alone:
\* at most R attempts, one sleep between consecutive attempts, and an outcome
\* decided by its own operation and its own R
C15_OwnRetryState ==
    \A t \in Tasks : pc[t] # "idle" =>
        /\ calls[t] <= retries[t]
        /\ attempt[t] \in 0 .. (retries[t] - 1)
        /\ Len(opErrors[t]) + (IF pc[t] = "returned" THEN 1 ELSE 0) = calls[t]
        /\ \A k \in DOMAIN opErrors[t] : opErrors[t][k] = Err("func", k)
        /\ \A k \in DOMAIN opErrors[t] : ~func[t].script[k]
        /\ pc[t] = "attempting" =>
              Len(sleeps[t]) = calls[t] /\ attempt[t] = calls[t]
        /\ pc[t] = "sleeping" =>
              /\ Len(sleeps[t]) = calls[t]
              /\ attempt[t] = calls[t] - 1
              /\ calls[t] < retries[t]
        /\ pc[t] = "returned" =>
              /\ Len(sleeps[t]) = calls[t] - 1
              /\ attempt[t] = calls[t] - 1
              /\ func[t].script[calls[t]]
              /\ result[t] = Value(calls[t])
        /\ pc[t] = "raised" =>
              /\ Len(sleeps[t]) = calls[t] - 1
              /\ attempt[t] = calls[t] - 1
              /\ calls[t] = retries[t]
              /\ error[t] = Err("func", retries[t])

\* a step changes the retry state of its actor only, the counter of a running
\* invocation moves by one at a wake-up, and a failed attempt that is not the
\* last is followed by exactly one sleep before the next attempt
C15_OwnSteps ==
    \A t \in Tasks :
        /\ t # Actor =>
              /\ attempt'[t] = attempt[t]
              /\ retries'[t] = retries[t]
              /\ delay'[t] = delay[t]
              /\ calls'[t] = calls[t]
              /\ sleeps'[t] = sleeps[t]
              /\ opErrors'[t] = opErrors[t]
              /\ pc'[t] = pc[t]
        /\ (pc[t] # "idle" /\ attempt'[t] # attempt[t]) =>
              /\ pc[t] = "sleeping"
              /\ pc'[t] = "attempting"
              /\ attempt'[t] = attempt[t] + 1
        /\ (calls'[t] = calls[t] + 1 /\ pc[t] # "idle") =>
              /\ pc[t] = "attempting"
              /\ \/ pc'[t] = "returned" /\ sleeps'[t] = sleeps[t]
                 \/ pc'[t] = "raised" /\ sleeps'[t] = sleeps[t]
                 \/ pc'[t] = "sleeping" /\ Len(sleeps'[t]) = Len(sleeps[t]) + 1

\* C15: each invocation of async_retry has its own retry state: with several
\* invocations interleaved as concurrent tasks, no invocation's attempt
\* counter is changed by, or decides the course of, another; each makes at
\* most its own R attempts and sleeps once between two consecutive attempts.
C15_IndependentRetryState == []C15_OwnRetryState /\ [][C15_OwnSteps]_vars

\* both invocations are in flight with different counters: T1, with three
\* attempts allowed, sleeps after its second failure while T2, with two
\* allowed, sleeps after its first
C15_Witness ==
    /\ pc["T1"] = "sleeping"
    /\ retries["T1"] = DefaultRetries
    /\ attempt["T1"] = 1
    /\ Len(sleeps["T1"]) = 2
    /\ pc["T2"] = "sleeping"
    /\ retries["T2"] = 2
    /\ attempt["T2"] = 0
    /\ Len(sleeps["T2"]) = 1

====
